---------------------------- MODULE Spec2Model ----------------------------
(***************************************************************************)
(* A model of src/util.rs of svd2rust: identifier sanitisation, register   *)
(* array expansion, access inference, enumeratedValues lookup and the      *)
(* register description walk.                                              *)
(*                                                                         *)
(* Strings are sequences of one-character strings, so that stripping,      *)
(* substitution and case conversion are computed and not assumed.  The     *)
(* functions of util.rs are pure: each specification below draws the       *)
(* arguments of one of them in its initial state and applies it.           *)
(***************************************************************************)
EXTENDS Integers, Sequences, FiniteSets, TLC

VARIABLES
    input,   \* the arguments of the call under way
    output,  \* the value the call returned
    pc,      \* "call" before the function ran, "done" after it returned
    stack    \* description_of: the frames of the recursion, outermost first

vars == <<input, output, pc, stack>>

\* Option<T>: None is the empty set, Some(x) the set holding x.
None == {}

Some(x) == {x}

IsSome(o) == o # {}

Unwrap(o) == CHOOSE x \in o : TRUE

(***************************************************************************)
(* Bounds of the model.                                                    *)
(***************************************************************************)
MaxLen == 4      \* longest identifier given to the sanitizer

(***************************************************************************)
(* Generic helpers on sequences.                                           *)
(***************************************************************************)
SeqsUpTo(S, n) == UNION {[1..k -> S] : k \in 0..n}

NonEmptySeqsUpTo(S, n) == UNION {[1..k -> S] : k \in 1..n}

Range(s) == {s[i] : i \in 1..Len(s)}

RECURSIVE Concat(_)
Concat(ss) == IF ss = <<>> THEN <<>> ELSE Head(ss) \o Concat(Tail(ss))

(***************************************************************************)
(* Characters.                                                             *)
(***************************************************************************)
UpperChars == <<"A", "B", "C", "D", "E", "F", "G", "H", "I", "J", "K", "L", "M",
                "N", "O", "P", "Q", "R", "S", "T", "U", "V", "W", "X", "Y", "Z">>

LowerChars == <<"a", "b", "c", "d", "e", "f", "g", "h", "i", "j", "k", "l", "m",
                "n", "o", "p", "q", "r", "s", "t", "u", "v", "w", "x", "y", "z">>

DigitChars == {"0", "1", "2", "3", "4", "5", "6", "7", "8", "9"}

IsUpper(c) == c \in Range(UpperChars)

IsLower(c) == c \in Range(LowerChars)

IsDigit(c) == c \in DigitChars

CharToLower(c) ==
    IF IsUpper(c)
    THEN LowerChars[CHOOSE i \in 1..Len(UpperChars) : UpperChars[i] = c]
    ELSE c

\* str::to_lowercase
ToLowercase(s) == [i \in 1..Len(s) |-> CharToLower(s[i])]

\* BLACKLIST_CHARS
BLACKLIST_CHARS == {"(", ")"}

\* self.replace(BLACKLIST_CHARS, "")
RECURSIVE StripBlacklist(_)
StripBlacklist(s) ==
    IF s = <<>> THEN <<>>
    ELSE IF Head(s) \in BLACKLIST_CHARS THEN StripBlacklist(Tail(s))
    ELSE <<Head(s)>> \o StripBlacklist(Tail(s))

(***************************************************************************)
(* Inflect::to_snake_case, of the inflections crate: a separator goes      *)
(* between a lower-case letter and the upper-case letter after it, and     *)
(* every letter is lower-cased ("2ndTimer" gives "2nd_timer").             *)
(***************************************************************************)
RECURSIVE SnakeFrom(_, _)
SnakeFrom(s, i) ==
    IF i > Len(s) THEN <<>>
    ELSE (IF i > 1 /\ IsLower(s[i - 1]) /\ IsUpper(s[i]) THEN <<"_">> ELSE <<>>)
         \o <<CharToLower(s[i])>> \o SnakeFrom(s, i + 1)

ToSnakeCase(s) == SnakeFrom(s, 1)

\* The table of the keywords! macro.
Keywords ==
    {
       <<"a", "b", "s", "t", "r", "a", "c", "t">>,
       <<"a", "l", "i", "g", "n", "o", "f">>,
       <<"a", "s">>,
       <<"b", "e", "c", "o", "m", "e">>,
       <<"b", "o", "x">>,
       <<"b", "r", "e", "a", "k">>,
       <<"c", "o", "n", "s", "t">>,
       <<"c", "o", "n", "t", "i", "n", "u", "e">>,
       <<"c", "r", "a", "t", "e">>,
       <<"d", "o">>,
       <<"e", "l", "s", "e">>,
       <<"e", "n", "u", "m">>,
       <<"e", "x", "t", "e", "r", "n">>,
       <<"f", "a", "l", "s", "e">>,
       <<"f", "i", "n", "a", "l">>,
       <<"f", "n">>,
       <<"f", "o", "r">>,
       <<"i", "f">>,
       <<"i", "m", "p", "l">>,
       <<"i", "n">>,
       <<"l", "e", "t">>,
       <<"l", "o", "o", "p">>,
       <<"m", "a", "c", "r", "o">>,
       <<"m", "a", "t", "c", "h">>,
       <<"m", "o", "d">>,
       <<"m", "o", "v", "e">>,
       <<"m", "u", "t">>,
       <<"o", "f", "f", "s", "e", "t", "o", "f">>,
       <<"o", "v", "e", "r", "r", "i", "d", "e">>,
       <<"p", "r", "i", "v">>,
       <<"p", "r", "o", "c">>,
       <<"p", "u", "b">>,
       <<"p", "u", "r", "e">>,
       <<"r", "e", "f">>,
       <<"r", "e", "t", "u", "r", "n">>,
       <<"s", "e", "l", "f">>,
       <<"s", "i", "z", "e", "o", "f">>,
       <<"s", "t", "a", "t", "i", "c">>,
       <<"s", "t", "r", "u", "c", "t">>,
       <<"s", "u", "p", "e", "r">>,
       <<"t", "r", "a", "i", "t">>,
       <<"t", "r", "u", "e">>,
       <<"t", "y", "p", "e">>,
       <<"t", "y", "p", "e", "o", "f">>,
       <<"u", "n", "s", "a", "f", "e">>,
       <<"u", "n", "s", "i", "z", "e", "d">>,
       <<"u", "s", "e">>,
       <<"v", "i", "r", "t", "u", "a", "l">>,
       <<"w", "h", "e", "r", "e">>,
       <<"w", "h", "i", "l", "e">>,
       <<"y", "i", "e", "l", "d">>
    }

\* A mutant of the keyword match: the scrutinee is not lower-cased.
KeywordEscapeCaseSensitive(s) ==
    IF s \in Keywords THEN s \o <<"_">> ELSE ToSnakeCase(s)

\* The keywords! macro: the stripped identifier, lower-cased, is matched
\* against the table; a keyword gets an underscore appended.
KeywordEscape(s) ==
    IF ToLowercase(s) \in Keywords
    THEN ToLowercase(s) \o <<"_">>
    ELSE ToSnakeCase(s)

\* <str as ToSanitizedSnakeCase>::to_sanitized_snake_case
ToSanitizedSnakeCase(self) ==
    LET s == StripBlacklist(self)
    IN  IF s # <<>> /\ IsDigit(s[1]) THEN <<"_">> \o ToSnakeCase(s)
        ELSE KeywordEscape(s)

(***************************************************************************)
(* The sanitizer applied to every identifier of up to MaxLen characters.   *)
(***************************************************************************)
SanitizerChars == {"i", "f", "n", "I", "F", "(", ")", "1"}

InitSanitize ==
    /\ input \in SeqsUpTo(SanitizerChars, MaxLen)
    /\ output = <<>>
    /\ pc = "call"
    /\ stack = <<>>

CallSanitizedSnakeCase ==
    /\ pc = "call"
    /\ output' = ToSanitizedSnakeCase(input)
    /\ pc' = "done"
    /\ UNCHANGED <<input, stack>>

NextSanitize == CallSanitizedSnakeCase

SpecSanitize == InitSanitize /\ [][NextSanitize]_vars

\* The underscore put before an identifier that starts with a digit.
DigitPrefix(s) == IF s # <<>> /\ IsDigit(s[1]) THEN <<"_">> ELSE <<>>

(***************************************************************************)
(* C9, as stated: the keyword escape is applied exactly when the ORIGINAL  *)
(* identifier, before any character is stripped, equals a reserved word    *)
(* case-insensitively; the result is then the lower-case keyword followed  *)
(* by one underscore, and otherwise it is the snake-case form of the       *)
(* stripped identifier, with an underscore in front when that starts with  *)
(* a digit.  The code matches the stripped identifier: "(if" gives "if_".  *)
(***************************************************************************)
C9_EscapeOnOriginal ==
    pc = "done" =>
        IF ToLowercase(input) \in Keywords
        THEN output = ToLowercase(input) \o <<"_">>
        ELSE output = DigitPrefix(StripBlacklist(input))
                      \o ToSnakeCase(StripBlacklist(input))

(***************************************************************************)
(* C9, amended: the keyword escape is applied exactly when the STRIPPED    *)
(* identifier (the blacklisted characters removed) equals a reserved word  *)
(* case-insensitively; the result is then the lower-case keyword followed  *)
(* by one underscore, and otherwise it is the snake-case form of the       *)
(* stripped identifier, with an underscore in front when that starts with  *)
(* a digit.                                                                *)
(***************************************************************************)
C9_EscapeOnStripped ==
    pc = "done" =>
        IF ToLowercase(StripBlacklist(input)) \in Keywords
        THEN output = ToLowercase(StripBlacklist(input)) \o <<"_">>
        ELSE output = DigitPrefix(StripBlacklist(input))
                      \o ToSnakeCase(StripBlacklist(input))

\* A keyword in upper case wrapped in blacklisted characters was escaped.
C9_Witness ==
    /\ pc = "done"
    /\ input # StripBlacklist(input)
    /\ StripBlacklist(input) # ToLowercase(StripBlacklist(input))
    /\ ToLowercase(StripBlacklist(input)) \in Keywords
    /\ output = ToLowercase(StripBlacklist(input)) \o <<"_">>

(***************************************************************************)
(* Register array expansion.                                               *)
(*                                                                         *)
(* A register is [kind, name, address_offset, dim, dim_increment,          *)
(* dim_index]; dim, dim_increment and dim_index are the ArrayInfo of an    *)
(* Array and are unused in a Single.  An ExpandedRegister is [register,    *)
(* name, offset]: register is the position of the input register it        *)
(* borrows (info is that register's RegisterInfo); ty is left out.         *)
(***************************************************************************)
DigitSeq == <<"0", "1", "2", "3", "4", "5", "6", "7", "8", "9">>

\* u32::to_string
RECURSIVE DecStr(_)
DecStr(n) ==
    IF n < 10 THEN <<DigitSeq[n + 1]>>
    ELSE DecStr(n \div 10) \o <<DigitSeq[(n % 10) + 1]>>

\* Whether pat occurs in s at position i.
MatchesAt(s, pat, i) ==
    /\ i + Len(pat) - 1 <= Len(s)
    /\ \A k \in 1..Len(pat) : s[i + k - 1] = pat[k]

\* str::contains
Contains(s, pat) == \E i \in 1..Len(s) : MatchesAt(s, pat, i)

\* str::replace: every occurrence, left to right, not overlapping
RECURSIVE ReplaceFrom(_, _, _, _)
ReplaceFrom(s, pat, rep, i) ==
    IF i > Len(s) THEN <<>>
    ELSE IF MatchesAt(s, pat, i)
    THEN rep \o ReplaceFrom(s, pat, rep, i + Len(pat))
    ELSE <<s[i]>> \o ReplaceFrom(s, pat, rep, i + 1)

Replace(s, pat, rep) == ReplaceFrom(s, pat, rep, 1)

Brackets == <<"[", "%", "s", "]">>

Bare == <<"%", "s">>

\* The index labels of an Array: dim_index, or 0..dim as decimal strings.
Indices(r) ==
    IF IsSome(r.dim_index) THEN Unwrap(r.dim_index)
    ELSE [i \in 1..r.dim |-> DecStr(i - 1)]

\* The name of one instance of an Array, before it is sanitized.
SubstituteIndex(name, idx) ==
    IF Contains(name, Brackets) THEN Replace(name, Brackets, idx)
    ELSE Replace(name, Bare, idx)

\* A mutant of the stride: the parsed value of a one-digit label, not the
\* position, multiplies dim_increment.
OffsetByLabel(r, i) ==
    LET idx == Indices(r)[i + 1]
        v   == IF Len(idx) = 1
               THEN (CHOOSE d \in 1..10 : DigitSeq[d] = idx[1]) - 1
               ELSE i
    IN  r.address_offset + v * r.dim_increment

\* info.address_offset + i * array_info.dim_increment.  The operands are
\* u32; the offsets drawn below stay far from 2^32, where the sum would
\* overflow.
InstanceOffset(r, i) == r.address_offset + i * r.dim_increment

\* What one register pushes to out: the body of the for loop of expand.
ExpandOne(registers, n) ==
    LET r == registers[n]
    IN  IF r.kind = "Single"
        THEN << [register |-> n,
                 name     |-> ToSanitizedSnakeCase(r.name),
                 offset   |-> r.address_offset] >>
        ELSE [i \in 1..Len(Indices(r)) |->
                 [register |-> n,
                  name     |-> ToSanitizedSnakeCase(
                                   SubstituteIndex(r.name, Indices(r)[i])),
                  offset   |-> InstanceOffset(r, i - 1)]]

\* out, when the for loop of expand is over
Instances(registers) ==
    Concat([n \in 1..Len(registers) |-> ExpandOne(registers, n)])

\* A mutant of the sort: an element goes before the elements of its key.
RECURSIVE InsertBeforeEqual(_, _)
InsertBeforeEqual(sorted, x) ==
    IF sorted = <<>> THEN <<x>>
    ELSE IF Head(sorted).offset < x.offset
    THEN <<Head(sorted)>> \o InsertBeforeEqual(Tail(sorted), x)
    ELSE <<x>> \o sorted

\* x put into a sorted list after every element whose key is not larger
RECURSIVE InsertByKey(_, _)
InsertByKey(sorted, x) ==
    IF sorted = <<>> THEN <<x>>
    ELSE IF Head(sorted).offset <= x.offset
    THEN <<Head(sorted)>> \o InsertByKey(Tail(sorted), x)
    ELSE <<x>> \o sorted

\* out.sort_by_key(|x| x.offset): a stable sort
RECURSIVE SortByKey(_)
SortByKey(out) ==
    IF out = <<>> THEN <<>>
    ELSE InsertByKey(SortByKey(SubSeq(out, 1, Len(out) - 1)), out[Len(out)])

\* expand
Expand(registers) == SortByKey(Instances(registers))

(***************************************************************************)
(* The registers given to expand: up to MaxRegs registers of distinct      *)
(* names, Singles and Arrays of both placeholder styles, of up to MaxDim   *)
(* instances, with or without explicit labels; the explicit labels are     *)
(* "4", "8", ..., MaxDim of them, whatever dim is.                         *)
(***************************************************************************)
MaxRegs == 2

MaxDim == 2

ExplicitLabels(n) == [i \in 1..n |-> DecStr(4 * i)]

SingleRegisters ==
    [kind : {"Single"},
     name : {<<"T", "0">>, <<"t", "0">>},
     address_offset : {0, 4},
     dim : {0}, dim_increment : {0}, dim_index : {None}]

ArrayRegisters ==
    [kind : {"Array"},
     name : {<<"T", "[", "%", "s", "]">>, <<"R", "%", "s">>},
     address_offset : {0, 4},
     dim : 1..MaxDim,
     dim_increment : {0, 4},
     dim_index : {None, Some(ExplicitLabels(MaxDim))}]

ExpandInputs ==
    {rs \in NonEmptySeqsUpTo(SingleRegisters \cup ArrayRegisters, MaxRegs) :
        \A i, j \in 1..Len(rs) : i # j => rs[i].name # rs[j].name}

InitExpand ==
    /\ input \in ExpandInputs
    /\ output = <<>>
    /\ pc = "call"
    /\ stack = <<>>

CallExpand ==
    /\ pc = "call"
    /\ output' = Expand(input)
    /\ pc' = "done"
    /\ UNCHANGED <<input, stack>>

NextExpand == CallExpand

SpecExpand == InitExpand /\ [][NextExpand]_vars

\* The instances of the result that borrow register n, in result order.
OfRegister(out, n) == LET Borrows(x) == x.register = n IN SelectSeq(out, Borrows)

\* The instances of a list at offset v, in list order.
AtOffset(out, v) == LET At(x) == x.offset = v IN SelectSeq(out, At)

(***************************************************************************)
(* C1: an Array with index labels L (dim_index, or the decimal strings of  *)
(* 0..dim-1) yields one instance per position of L, dim of them without    *)
(* dim_index, and the instance of position i, the one named by L[i], is at *)
(* address_offset + i * dim_increment; a Single yields one instance at its *)
(* address_offset.                                                         *)
(***************************************************************************)
C1_OneInstancePerLabel ==
    pc = "done" =>
        \A n \in 1..Len(input) :
            LET r   == input[n]
                got == OfRegister(output, n)
                L   == IF IsSome(r.dim_index) THEN Unwrap(r.dim_index)
                       ELSE [i \in 1..r.dim |-> DecStr(i - 1)]
            IN  IF r.kind = "Single"
                THEN /\ Len(got) = 1
                     /\ got[1].offset = r.address_offset
                ELSE /\ Len(got) = Len(L)
                     /\ (~IsSome(r.dim_index) => Len(got) = r.dim)
                     /\ \A i \in 0..(Len(L) - 1) :
                            /\ got[i + 1].offset =
                                   r.address_offset + i * r.dim_increment
                            /\ got[i + 1].name =
                                   ToSanitizedSnakeCase(
                                       SubstituteIndex(r.name, L[i + 1]))

\* An Array with explicit labels "4", "8", fewer than dim or as many, was
\* expanded with a stride of 4, next to another register.
C1_Witness ==
    /\ pc = "done"
    /\ \E n \in 1..Len(input) :
          /\ input[n].kind = "Array"
          /\ IsSome(input[n].dim_index)
          /\ Len(Unwrap(input[n].dim_index)) >= 2
          /\ input[n].dim_increment > 0
          /\ Len(OfRegister(output, n)) = Len(Unwrap(input[n].dim_index))
    /\ \E n \in 1..Len(input) :
          /\ input[n].kind = "Array"
          /\ IsSome(input[n].dim_index)
          /\ Len(Unwrap(input[n].dim_index)) # input[n].dim

(***************************************************************************)
(* C2: the result of expand is sorted ascending by offset and holds the    *)
(* expanded instances, each once, and the instances of one offset stand in *)
(* the order the expansion produced them in.                               *)
(***************************************************************************)
C2_SortedStable ==
    pc = "done" =>
        /\ Len(output) = Len(Instances(input))
        /\ \A i, j \in 1..Len(output) :
               i < j => output[i].offset <= output[j].offset
        /\ \A v \in {x.offset : x \in Range(Instances(input))}
                    \cup {x.offset : x \in Range(output)} :
               AtOffset(output, v) = AtOffset(Instances(input), v)

\* The sort moved an instance, and two instances of different registers
\* share an offset.
C2_Witness ==
    /\ pc = "done"
    /\ output # Instances(input)
    /\ \E i, j \in 1..Len(output) :
          /\ i < j
          /\ output[i].offset = output[j].offset
          /\ output[i].register # output[j].register

\* The names of the instances before they are sanitized, in the order they
\* are produced.
RawNames(registers) ==
    Concat([n \in 1..Len(registers) |->
        IF registers[n].kind = "Single" THEN <<registers[n].name>>
        ELSE [i \in 1..Len(Indices(registers[n])) |->
                 SubstituteIndex(registers[n].name, Indices(registers[n])[i])]])

Distinct(s) == \A i, j \in 1..Len(s) : i # j => s[i] # s[j]

(***************************************************************************)
(* C8: no two instances of the result of expand carry the same name.       *)
(* Stated for the peripherals whose instance names are distinct before     *)
(* they are sanitized, the only ones for which it can be meant: "T0" and   *)
(* "t0" are both sanitized to "t0".                                        *)
(***************************************************************************)
C8_NamesUnique ==
    (pc = "done" /\ Distinct(RawNames(input))) =>
        \A i, j \in 1..Len(output) : i # j => output[i].name # output[j].name

(***************************************************************************)
(* Access inference.                                                       *)
(*                                                                         *)
(* Here a register is [access, fields], access an Option<Access> and       *)
(* fields an Option of a list of fields; a field is [access].              *)
(***************************************************************************)
Access == {"ReadOnly", "WriteOnly", "ReadWrite"}

\* register.fields.as_ref().unwrap_or(&empty)
FieldsOrEmpty(register) ==
    IF IsSome(register.fields) THEN Unwrap(register.fields) ELSE <<>>

\* The fields access_of looks at: the register's, then the base's.
ChainedFields(register, base) ==
    FieldsOrEmpty(register)
    \o (IF IsSome(base) THEN FieldsOrEmpty(Unwrap(base)) ELSE <<>>)

\* The closure of unwrap_or_else: the access the fields imply.
InferredAccess(fields) ==
    IF Len(fields) = 0 THEN "ReadWrite"
    ELSE IF \A i \in 1..Len(fields) : fields[i].access = Some("ReadOnly")
    THEN "ReadOnly"
    ELSE IF \A i \in 1..Len(fields) : fields[i].access = Some("WriteOnly")
    THEN "WriteOnly"
    ELSE "ReadWrite"

\* A mutant of access_of: the fields of the base are not looked at.
AccessOfOwnFields(register, base) ==
    IF IsSome(register.access) THEN Unwrap(register.access)
    ELSE IF IsSome(base) /\ IsSome(Unwrap(base).access)
    THEN Unwrap(Unwrap(base).access)
    ELSE InferredAccess(FieldsOrEmpty(register))

\* access_of
AccessOf(register, base) ==
    IF IsSome(register.access) THEN Unwrap(register.access)
    ELSE IF IsSome(base) /\ IsSome(Unwrap(base).access)
    THEN Unwrap(Unwrap(base).access)
    ELSE InferredAccess(ChainedFields(register, base))

(***************************************************************************)
(* The arguments of access_of: every register of up to MaxAccessFields     *)
(* fields, with every base or none.                                        *)
(***************************************************************************)
MaxAccessFields == 2

OptionOf(S) == {None} \cup {Some(x) : x \in S}

AccessFields == [access : OptionOf(Access)]

AccessRegisters ==
    [access : OptionOf(Access),
     fields : OptionOf(SeqsUpTo(AccessFields, MaxAccessFields))]

InitAccess ==
    /\ input \in [register : AccessRegisters, base : OptionOf(AccessRegisters)]
    /\ output = <<>>
    /\ pc = "call"
    /\ stack = <<>>

CallAccessOf ==
    /\ pc = "call"
    /\ output' = AccessOf(input.register, input.base)
    /\ pc' = "done"
    /\ UNCHANGED <<input, stack>>

NextAccess == CallAccessOf

SpecAccess == InitAccess /\ [][NextAccess]_vars

\* The accesses of the fields of the register and of the base, as a set.
UnionAccesses(register, base) ==
    {FieldsOrEmpty(register)[i].access : i \in 1..Len(FieldsOrEmpty(register))}
    \cup (IF IsSome(base)
          THEN {FieldsOrEmpty(Unwrap(base))[i].access :
                    i \in 1..Len(FieldsOrEmpty(Unwrap(base)))}
          ELSE {})

(***************************************************************************)
(* C7: access_of returns the register's access when it is set; else the    *)
(* access of the base when a base is given and its access is set; else,    *)
(* over the fields of the register and of the base together, ReadWrite     *)
(* when there is none, ReadOnly when every one is ReadOnly, WriteOnly when *)
(* every one is WriteOnly, and ReadWrite in every other case.              *)
(***************************************************************************)
C7_AccessOf ==
    pc = "done" =>
        LET register == input.register
            base     == input.base
            union    == UnionAccesses(register, base)
        IN  IF IsSome(register.access)
            THEN output = Unwrap(register.access)
            ELSE IF IsSome(base) /\ IsSome(Unwrap(base).access)
            THEN output = Unwrap(Unwrap(base).access)
            ELSE CASE union = {} -> output = "ReadWrite"
                   [] union = {Some("ReadOnly")} -> output = "ReadOnly"
                   [] union = {Some("WriteOnly")} -> output = "WriteOnly"
                   [] OTHER -> output = "ReadWrite"

\* No access is declared, the register's own fields are all WriteOnly and a
\* field of the base is not: the base's fields decided for ReadWrite.
C7_Witness ==
    /\ pc = "done"
    /\ ~IsSome(input.register.access)
    /\ IsSome(input.base)
    /\ ~IsSome(Unwrap(input.base).access)
    /\ Len(FieldsOrEmpty(input.register)) > 0
    /\ InferredAccess(FieldsOrEmpty(input.register)) = "WriteOnly"
    /\ Len(FieldsOrEmpty(Unwrap(input.base))) > 0
    /\ output = "ReadWrite"

(***************************************************************************)
(* enumeratedValues lookup.                                                *)
(*                                                                         *)
(* Here a register is [name, fields], fields an Option of a list of        *)
(* fields; a field is [name, enumerated_values]; an EnumeratedValues is    *)
(* [name, usage, derived_from], each an Option.  A reference to an         *)
(* EnumeratedValues is its place [reg, field, evs] in all_registers: the   *)
(* code returns borrows, and two EnumeratedValues of two fields may hold   *)
(* the same values.  A Result is [ok |-> TRUE, value] or [ok |-> FALSE,    *)
(* kind, msg, names], msg the format string of the error and names what    *)
(* it prints.                                                              *)
(***************************************************************************)
Ok(v) == [ok |-> TRUE, value |-> v]

Err(kind, msg, names) == [ok |-> FALSE, kind |-> kind, msg |-> msg, names |-> names]

\* str::split('.')
RECURSIVE SplitFrom(_, _, _)
SplitFrom(s, i, part) ==
    IF i > Len(s) THEN <<part>>
    ELSE IF s[i] = "." THEN <<part>> \o SplitFrom(s, i + 1, <<>>)
    ELSE SplitFrom(s, i + 1, Append(part, s[i]))

SplitDots(s) == SplitFrom(s, 1, <<>>)

\* {:?} of an Option<String>
DebugOption(o) ==
    IF IsSome(o) THEN <<"S", "o", "m", "e", "(", "\"">> \o Unwrap(o) \o <<"\"", ")">>
    ELSE <<"N", "o", "n", "e">>

\* register.fields.as_ref().map(|fs| &**fs).unwrap_or(&[])
FieldsOf(register) ==
    IF IsSome(register.fields) THEN Unwrap(register.fields) ELSE <<>>

\* The positions of the EnumeratedValues of a field that are named base_evs.
NamedIn(field, base_evs) ==
    {k \in 1..Len(field.enumerated_values) :
        field.enumerated_values[k].name = Some(base_evs)}

Min(S) == CHOOSE x \in S : \A y \in S : x <= y

\* A mutant of lookup_in_field: the Base never names a register.
LookupInFieldNoRegister(base_evs, base_register, all_registers, r, f) ==
    LET field == FieldsOf(all_registers[r])[f]
    IN  IF NamedIn(field, base_evs) # {}
        THEN Ok([evs  |-> [reg |-> r, field |-> f,
                           evs |-> Min(NamedIn(field, base_evs))],
                 base |-> Some([field |-> field.name, register |-> None])])
        ELSE Err("NotFound", "No EnumeratedValues {} in field {}",
                 <<base_evs, field.name>>)

\* lookup_in_field, for the field at position f of register r
LookupInField(base_evs, base_register, all_registers, r, f) ==
    LET field == FieldsOf(all_registers[r])[f]
    IN  IF NamedIn(field, base_evs) # {}
        THEN Ok([evs  |-> [reg |-> r, field |-> f,
                           evs |-> Min(NamedIn(field, base_evs))],
                 base |-> Some([field |-> field.name,
                                register |-> base_register])])
        ELSE Err("NotFound", "No EnumeratedValues {} in field {}",
                 <<base_evs, field.name>>)

\* lookup_in_fields: fields are the fields of the current register cur
LookupInFields(base_evs, base_field, all_registers, cur) ==
    LET fields == FieldsOf(all_registers[cur])
        found  == {f \in 1..Len(fields) : fields[f].name = base_field}
    IN  IF found # {}
        THEN LookupInField(base_evs, None, all_registers, cur, Min(found))
        ELSE Err("NotFound", "Field {} not found in register {}",
                 <<base_field, all_registers[cur].name>>)

\* lookup_in_peripheral
LookupInPeripheral(base_register, base_field, base_evs, all_registers, peripheral) ==
    LET regs == {r \in 1..Len(all_registers) :
                    all_registers[r].name = base_register}
    IN  IF regs # {}
        THEN LET r      == Min(regs)
                 fields == FieldsOf(all_registers[r])
                 found  == {f \in 1..Len(fields) : fields[f].name = base_field}
             IN  IF found # {}
                 THEN LookupInField(base_evs, Some(base_register),
                                    all_registers, r, Min(found))
                 ELSE Err("NotFound", "No field {} in register {}",
                          <<base_field, all_registers[r].name>>)
        ELSE Err("NotFound", "No register {} in peripheral {}",
                 <<base_register, peripheral>>)

\* matches, in lookup_in_register: the fields, in order, that hold an
\* EnumeratedValues named base_evs
Matches(base_evs, register) ==
    LET Holds(f) == NamedIn(FieldsOf(register)[f], base_evs) # {}
    IN  SelectSeq([f \in 1..Len(FieldsOf(register)) |-> f], Holds)

\* lookup_in_register.  The names the Ambiguous error prints are taken from
\* the first component of each match, the EnumeratedValues, not from the
\* second, the name of the field.
LookupInRegister(base_evs, all_registers, cur) ==
    LET register == all_registers[cur]
        matches  == Matches(base_evs, register)
        Evs(m)   == LET field == FieldsOf(register)[matches[m]]
                    IN  field.enumerated_values[Min(NamedIn(field, base_evs))]
    IN  IF matches = <<>>
        THEN Err("NotFound", "EnumeratedValues {} not found in register {}",
                 <<base_evs, register.name>>)
        ELSE IF Len(matches) = 1
        THEN Ok([evs  |-> [reg |-> cur, field |-> matches[1],
                           evs |-> Min(NamedIn(FieldsOf(register)[matches[1]],
                                               base_evs))],
                 base |-> Some([field |-> FieldsOf(register)[matches[1]].name,
                                register |-> None])])
        ELSE Err("Ambiguous", "Fields {:?} have an enumeratedValues named {}",
                 [m \in 1..Len(matches) |-> DebugOption(Evs(m).name)]
                 \o <<base_evs>>)

\* The closure lookup maps over evs: candidate k of field own of the
\* current register.
Resolve(all_registers, peripheral, cur, own, k) ==
    LET candidate == FieldsOf(all_registers[cur])[own].enumerated_values[k]
        parts     == SplitDots(Unwrap(candidate.derived_from))
    IN  IF IsSome(candidate.derived_from)
        THEN IF Len(parts) >= 3
             THEN LookupInPeripheral(parts[1], parts[2], parts[3],
                                     all_registers, peripheral)
             ELSE IF Len(parts) = 2
             THEN LookupInFields(parts[2], parts[1], all_registers, cur)
             ELSE LookupInRegister(parts[1], all_registers, cur)
        ELSE Ok([evs  |-> [reg |-> cur, field |-> own, evs |-> k],
                 base |-> None])

\* The EnumeratedValues a reference borrows.
Deref(all_registers, ref) ==
    FieldsOf(all_registers[ref.reg])[ref.field].enumerated_values[ref.evs]

\* A mutant of lookup: the last candidate of the usage is returned.
LookupLastMatch(all_registers, peripheral, cur, own, usage) ==
    LET evs      == FieldsOf(all_registers[cur])[own].enumerated_values
        resolved == [k \in 1..Len(evs) |->
                        Resolve(all_registers, peripheral, cur, own, k)]
        failed   == {k \in 1..Len(evs) : ~resolved[k].ok}
        matching == {k \in 1..Len(evs) :
                        Deref(all_registers, resolved[k].value.evs).usage
                            = Some(usage)}
        last     == CHOOSE k \in matching : \A j \in matching : j <= k
    IN  IF failed # {}
        THEN [result |-> resolved[Min(failed)], selected |-> 0]
        ELSE IF matching # {}
        THEN [result |-> Ok(Some(resolved[last].value)), selected |-> last]
        ELSE IF Len(evs) > 0
        THEN [result |-> Ok(Some(resolved[1].value)), selected |-> 1]
        ELSE [result |-> Ok(None), selected |-> 0]

\* lookup, of the enumerated_values of field own of the current register
\* cur.  result is what it returns; selected is the position, in evs, of the
\* candidate it returned (0 when it returned none).
Lookup(all_registers, peripheral, cur, own, usage) ==
    LET evs      == FieldsOf(all_registers[cur])[own].enumerated_values
        resolved == [k \in 1..Len(evs) |->
                        Resolve(all_registers, peripheral, cur, own, k)]
        failed   == {k \in 1..Len(evs) : ~resolved[k].ok}
        matching == {k \in 1..Len(evs) :
                        Deref(all_registers, resolved[k].value.evs).usage
                            = Some(usage)}
    IN  IF failed # {}
        THEN [result |-> resolved[Min(failed)], selected |-> 0]
        ELSE IF matching # {}
        THEN [result   |-> Ok(Some(resolved[Min(matching)].value)),
              selected |-> Min(matching)]
        ELSE IF Len(evs) > 0
        THEN [result |-> Ok(Some(resolved[1].value)), selected |-> 1]
        ELSE [result |-> Ok(None), selected |-> 0]

(***************************************************************************)
(* The arguments of lookup.  The peripheral holds the current register R   *)
(* and, or not, a register CTRL.  The first field of R, O, is the field    *)
(* whose enumerated_values are looked up: up to MaxCandidates of them,     *)
(* declared in place or derived by a reference of one, two or three        *)
(* components.  R has up to MaxFields more fields, F, G, ...               *)
(***************************************************************************)
MaxCandidates == 2

MaxFields == 2

EvsE == <<"E">>

EvsD == <<"D">>

EvsP == <<"P">>

Usage == {"Read", "Write"}

Values(name, usage) ==
    [name |-> Some(name), usage |-> usage, derived_from |-> None]

Derived(reference, usage) ==
    [name |-> None, usage |-> usage, derived_from |-> Some(reference)]

Candidates ==
    {Values(EvsP, None), Values(EvsP, Some("Read")), Values(EvsP, Some("Write")),
     Values(EvsE, Some("Read")),
     Derived(<<"E">>, None), Derived(<<"E">>, Some("Read")),
     Derived(<<"F", ".", "E">>, None),
     Derived(<<"C", "T", "R", "L", ".", "F", ".", "E">>, None)}

FieldNames == <<<<"F">>, <<"G">>, <<"H">>, <<"I">>>>

OtherValues ==
    {<<Values(EvsD, Some("Write"))>>,
     <<Values(EvsD, Some("Read")), Values(EvsE, Some("Read"))>>}

OtherFields ==
    UNION {[1..n -> OtherValues] : n \in 0..MaxFields}

CurrentRegister(candidates, others) ==
    [name   |-> <<"R">>,
     fields |-> Some(<<[name |-> <<"O">>, enumerated_values |-> candidates]>>
                     \o [f \in 1..Len(others) |->
                            [name |-> FieldNames[f],
                             enumerated_values |-> others[f]]])]

CurrentRegisters ==
    {CurrentRegister(c, o) : c \in SeqsUpTo(Candidates, MaxCandidates),
                             o \in OtherFields}

Ctrl(fields) == [name |-> <<"C", "T", "R", "L">>, fields |-> fields]

OtherRegisters ==
    {<<>>,
     <<Ctrl(None)>>,
     <<Ctrl(Some(<<[name |-> <<"F">>,
                    enumerated_values |->
                        <<Values(EvsD, None), Values(EvsE, Some("Write"))>>]>>))>>}

PeripheralName == <<"P", "0">>

InitLookup ==
    /\ \/ input \in [fn : {"lookup"},
                     all_registers :
                         {<<r>> \o o : r \in CurrentRegisters,
                                       o \in OtherRegisters},
                     usage : Usage]
       \/ input \in [fn : {"lookup_in_register"},
                     all_registers : {<<r>> : r \in CurrentRegisters},
                     base_evs : {EvsE, EvsD}]
    /\ output = <<>>
    /\ pc = "call"
    /\ stack = <<>>

\* lookup(&f.enumerated_values, fields, register, all_registers, peripheral,
\* usage), f the first field of register, the first of all_registers
CallLookup ==
    /\ pc = "call"
    /\ input.fn = "lookup"
    /\ output' = Lookup(input.all_registers, PeripheralName, 1, 1, input.usage)
    /\ pc' = "done"
    /\ UNCHANGED <<input, stack>>

\* lookup_in_register(base_evs, register)
CallLookupInRegister ==
    /\ pc = "call"
    /\ input.fn = "lookup_in_register"
    /\ output' = [result   |-> LookupInRegister(input.base_evs,
                                                input.all_registers, 1),
                  selected |-> 0]
    /\ pc' = "done"
    /\ UNCHANGED <<input, stack>>

NextLookup == CallLookup \/ CallLookupInRegister

SpecLookup == InitLookup /\ [][NextLookup]_vars

\* The candidates of the call, and what each resolved to.
CandidatesOf(in) == FieldsOf(in.all_registers[1])[1].enumerated_values

Returned == Unwrap(output.result.value)

ReturnedValues == Deref(input.all_registers, Returned.evs)

LookupReturned ==
    /\ pc = "done"
    /\ input.fn = "lookup"
    /\ output.result.ok
    /\ IsSome(output.result.value)

\* What candidate k of the call resolved to.
ResolvedOf(k) == Resolve(input.all_registers, PeripheralName, 1, 1, k).value

(***************************************************************************)
(* C3, as stated: when every candidate resolves, lookup returns the first  *)
(* candidate whose usage, the one the candidate declares, is the requested *)
(* one, and the first candidate when no candidate declares it.  The code   *)
(* compares the usage of what each candidate resolved to.                  *)
(***************************************************************************)
C3_FirstOfDeclaredUsage ==
    LookupReturned =>
        LET evs      == CandidatesOf(input)
            declared == {k \in 1..Len(evs) : evs[k].usage = Some(input.usage)}
        IN  output.selected = IF declared # {} THEN Min(declared) ELSE 1

(***************************************************************************)
(* C3, amended: when every candidate resolves, lookup returns the first    *)
(* candidate, in declaration order, for which the usage of the             *)
(* EnumeratedValues it resolved to (itself, when it is not derived) is the *)
(* requested one, and the first candidate when there is none; what is      *)
(* returned for a derived candidate is the EnumeratedValues it resolved    *)
(* to.                                                                     *)
(***************************************************************************)
C3_FirstOfResolvedUsage ==
    LookupReturned =>
        LET evs     == CandidatesOf(input)
            usageOf == [k \in 1..Len(evs) |->
                           Deref(input.all_registers, ResolvedOf(k).evs).usage]
            wanted  == {k \in 1..Len(evs) : usageOf[k] = Some(input.usage)}
            k       == IF wanted # {} THEN Min(wanted) ELSE 1
        IN  /\ output.selected = k
            /\ Returned = ResolvedOf(k)
            /\ (~IsSome(evs[k].derived_from) => ReturnedValues = evs[k])

\* The second candidate was returned: it is derived, declares no usage,
\* and resolved to an EnumeratedValues of the requested usage.
C3_Witness ==
    /\ LookupReturned
    /\ output.selected = 2
    /\ IsSome(CandidatesOf(input)[2].derived_from)
    /\ ~IsSome(CandidatesOf(input)[2].usage)
    /\ ReturnedValues.usage = Some(input.usage)

(***************************************************************************)
(* C4: a one-component reference E, resolved against the current register, *)
(* succeeds exactly when exactly one field of the register holds an        *)
(* EnumeratedValues named E; when two or more do it fails as Ambiguous and *)
(* reports the names of all those fields; when none does it fails as       *)
(* NotFound.                                                               *)
(***************************************************************************)
C4_OneComponent ==
    (pc = "done" /\ input.fn = "lookup_in_register") =>
        LET fields  == FieldsOf(input.all_registers[1])
            holders == {f \in 1..Len(fields) :
                           \E k \in 1..Len(fields[f].enumerated_values) :
                               fields[f].enumerated_values[k].name
                                   = Some(input.base_evs)}
            InOrder(f) == f \in holders
            names   == [i \in 1..Cardinality(holders) |->
                           fields[SelectSeq([f \in 1..Len(fields) |-> f],
                                            InOrder)[i]].name]
            r       == output.result
        IN  /\ r.ok <=> Cardinality(holders) = 1
            /\ Cardinality(holders) = 0 => (~r.ok /\ r.kind = "NotFound")
            /\ Cardinality(holders) >= 2 =>
                   /\ ~r.ok
                   /\ r.kind = "Ambiguous"
                   /\ SubSeq(r.names, 1, Len(r.names) - 1) = names

(***************************************************************************)
(* C5: for a result (evs, base) of lookup, base is None when the candidate *)
(* returned is not derived; it is {register: Some(R), field: F} for a      *)
(* reference R.F.E; its register is None for a reference of two or one     *)
(* components; and in the derived cases evs is named by the last component *)
(* and is one of the enumerated_values of a field named base.field, in a   *)
(* register named base.register, or in the current register when that is   *)
(* None.                                                                   *)
(***************************************************************************)
C5_Provenance ==
    LookupReturned =>
        LET candidate == CandidatesOf(input)[output.selected]
            parts     == SplitDots(Unwrap(candidate.derived_from))
            base      == Unwrap(Returned.base)
            ref       == Returned.evs
            register  == input.all_registers[ref.reg]
        IN  IF ~IsSome(candidate.derived_from)
            THEN Returned.base = None
            ELSE /\ IsSome(Returned.base)
                 /\ Len(parts) = 3 =>
                        /\ base.register = Some(parts[1])
                        /\ base.field = parts[2]
                 /\ Len(parts) \in {1, 2} => base.register = None
                 /\ ReturnedValues.name = Some(parts[Len(parts)])
                 /\ IF IsSome(base.register)
                    THEN register.name = Unwrap(base.register)
                    ELSE ref.reg = 1
                 /\ ref.field \in 1..Len(FieldsOf(register))
                 /\ FieldsOf(register)[ref.field].name = base.field
                 /\ ref.evs \in 1..Len(FieldsOf(register)[ref.field].enumerated_values)

\* A candidate derived by a reference of three components was returned, out
\* of the register CTRL.
C5_Witness ==
    /\ LookupReturned
    /\ IsSome(CandidatesOf(input)[output.selected].derived_from)
    /\ Len(SplitDots(Unwrap(CandidatesOf(input)[output.selected].derived_from))) = 3
    /\ Returned.evs.reg = 2
    /\ Unwrap(Returned.base).register = Some(<<"C", "T", "R", "L">>)

(***************************************************************************)
(* Register description resolution.                                        *)
(*                                                                         *)
(* Here a register is [name, derived_from, description], the last two      *)
(* Options; a borrow of a register is its position in all_registers.  An   *)
(* error is [ok |-> FALSE, kind, msg, names, context]: context holds what  *)
(* chain_err put around it, outermost first.                               *)
(***************************************************************************)
ErrIn(kind, msg, names, context) ==
    [ok |-> FALSE, kind |-> kind, msg |-> msg, names |-> names,
     context |-> context]

\* Result::chain_err
ChainErr(result, context) ==
    IF result.ok THEN result
    ELSE [result EXCEPT !.context = <<context>> \o @]

\* lookup_register
LookupRegister(base, all_registers) ==
    LET found == {r \in 1..Len(all_registers) : all_registers[r].name = base}
    IN  IF found # {} THEN Ok(Min(found))
        ELSE ErrIn("NotFound", "Register {} not found", <<base>>, <<>>)

\* lookup_parent
LookupParent(register, all_registers) ==
    LET r == all_registers[register]
    IN  IF IsSome(r.derived_from) /\ r.name = Unwrap(r.derived_from)
        THEN ErrIn("SelfDerivation", "Register {} derives from itself.",
                   <<r.name>>, <<>>)
        ELSE IF IsSome(r.derived_from)
        THEN ChainErr(LookupRegister(Unwrap(r.derived_from), all_registers),
                      <<"While getting base for register {}", r.name>>)
        ELSE ErrIn("NoBase", "Couldn't get base of register {}", <<r.name>>, <<>>)

\* Result::ok
OkOf(result) == IF result.ok THEN Some(result.value) ELSE None

(***************************************************************************)
(* The arguments: up to MaxChain registers A, B, ..., each with or without *)
(* a description, deriving from none, from any of them, itself too, or     *)
(* from a register X the peripheral lacks.  description_of is called as    *)
(* its callers do, with the base lookup_parent found, if it found one.     *)
(* The recursion of description_of is a stack of frames [register, base];  *)
(* a frame is kept when its call returns, so that stack is also the list   *)
(* of the calls made.                                                      *)
(***************************************************************************)
MaxChain == 2

MaxStack == 6

RegisterNames == <<<<"A">>, <<"B">>, <<"C">>, <<"D">>>>

DescribedRegisters(n) ==
    {rs \in [1..n -> [name : Range(RegisterNames),
                      derived_from : OptionOf({RegisterNames[i] : i \in 1..n}
                                              \cup {<<"X">>}),
                      description : OptionOf({<<"t", "e", "x", "t">>})]] :
        \A i \in 1..n : rs[i].name = RegisterNames[i]}

InitDescribe ==
    /\ \E n \in 1..MaxChain :
          input \in [fn : {"description_of", "lookup_parent"},
                     all_registers : DescribedRegisters(n),
                     register : 1..n]
    /\ output = <<>>
    /\ pc = "call"
    /\ stack = <<>>

\* lookup_parent(register, all_registers)
CallLookupParent ==
    /\ pc = "call"
    /\ input.fn = "lookup_parent"
    /\ output' = LookupParent(input.register, input.all_registers)
    /\ pc' = "done"
    /\ UNCHANGED <<input, stack>>

\* description_of(register, lookup_parent(register, all_registers).ok(),
\* all_registers): the outermost call
CallDescriptionOf ==
    /\ pc = "call"
    /\ input.fn = "description_of"
    /\ stack' = <<[register |-> input.register,
                   base     |-> OkOf(LookupParent(input.register,
                                                  input.all_registers))]>>
    /\ pc' = "running"
    /\ UNCHANGED <<input, output>>

Top == stack[Len(stack)]

TopRegister == input.all_registers[Top.register]

\* description_of, no description and a base: the recursive call, on the
\* base, with lookup_parent(base_register, all_registers).ok()
DescriptionOfBase ==
    /\ pc = "running"
    /\ ~IsSome(TopRegister.description)
    /\ IsSome(Top.base)
    /\ Len(stack) < MaxStack
    /\ stack' = Append(stack,
                       [register |-> Unwrap(Top.base),
                        base     |-> OkOf(LookupParent(Unwrap(Top.base),
                                                       input.all_registers))])
    /\ UNCHANGED <<input, output, pc>>

\* The recursion went as deep as the stack allows: the process dies.
StackOverflow ==
    /\ pc = "running"
    /\ ~IsSome(TopRegister.description)
    /\ IsSome(Top.base)
    /\ Len(stack) >= MaxStack
    /\ pc' = "overflow"
    /\ UNCHANGED <<input, output, stack>>

\* The contexts the callers put around an error of the innermost call.
Contexts ==
    [i \in 1..(Len(stack) - 1) |->
        <<"While getting description of register {}",
          input.all_registers[stack[i + 1].register].name>>]

\* description_of, a description, or neither a description nor a base: the
\* innermost call returns, and every caller returns what it got, an error
\* within its context.
DescriptionOfReturn ==
    /\ pc = "running"
    /\ IsSome(TopRegister.description) \/ ~IsSome(Top.base)
    /\ output' = IF IsSome(TopRegister.description)
                 THEN Ok(Unwrap(TopRegister.description))
                 ELSE ErrIn("MissingDescription",
                            "Register {} has no description",
                            <<TopRegister.name>>, Contexts)
    /\ pc' = "done"
    /\ UNCHANGED <<input, stack>>

NextDescribe ==
    \/ CallLookupParent
    \/ CallDescriptionOf
    \/ DescriptionOfBase
    \/ StackOverflow
    \/ DescriptionOfReturn

SpecDescribe == InitDescribe /\ [][NextDescribe]_vars

SelfDerived(r) == r.derived_from = Some(r.name)

(***************************************************************************)
(* C6: a register whose derived_from is its own name fails as              *)
(* SelfDerivation: lookup_parent returns that error for it, and            *)
(* description_of, when it reaches such a register without a description,  *)
(* ends with the SelfDerivation error, not with another error nor with a   *)
(* description.                                                            *)
(***************************************************************************)
C6_SelfDerivation ==
    /\ (pc = "done" /\ input.fn = "lookup_parent"
        /\ SelfDerived(input.all_registers[input.register]))
       => (~output.ok /\ output.kind = "SelfDerivation")
    /\ (pc = "done" /\ input.fn = "description_of"
        /\ \E i \in 1..Len(stack) :
              /\ SelfDerived(input.all_registers[stack[i].register])
              /\ ~IsSome(input.all_registers[stack[i].register].description))
       => (~output.ok /\ output.kind = "SelfDerivation")

(***************************************************************************)
(* C10: description_of terminates on every register list, with a           *)
(* description or an error, also when registers without descriptions       *)
(* derive from each other in a cycle.  description_of is a function of its *)
(* arguments, so a call that makes, directly or not, a call with its own   *)
(* arguments never returns: no two frames of the stack are equal.          *)
(***************************************************************************)
C10_WalkTerminates ==
    \A i, j \in 1..Len(stack) : i < j => stack[i] # stack[j]

=============================================================================
